---- MODULE Spec2Model ----
(***************************************************************************)
(* Melissa "Bobbie" water heater platform                                  *)
(* (homeassistant/components/melissa/water_heater.py).                     *)
(*                                                                         *)
(* Spec      : one BobbieWaterHeater entity, from its construction on.     *)
(*             The host awaits each async_update / async_turn_on /         *)
(*             async_turn_off to completion; every await of such a call is *)
(*             a step, and property reads happen between the steps.        *)
(* SetupSpec : async_setup_platform over a fetched device list.            *)
(*                                                                         *)
(* Python values: scalars are strings ("True", "False", "None", "eco"),    *)
(* dicts are functions over their keys, and an optional dict or number is  *)
(* a sequence of length at most one (Nothing for None, Just(v) otherwise). *)
(***************************************************************************)
EXTENDS Integers, Sequences, FiniteSets, TLC

VARIABLES
    self,          \* the entity: attribute name -> value; no attribute before __init__
    init_data,     \* the device dict the entity is constructed from
    task,          \* the running (or last finished) operation on the entity
    returned,      \* the most recent property read: its value, whether it assigned
    fetched,       \* history: which update call stored _status_data / _cur_settings
    platform       \* async_setup_platform: position, fetched devices, registrations

vars == <<self, init_data, task, returned, fetched, platform>>

-----------------------------------------------------------------------------
(* Bounds *)

MaxDevices == 2    \* length of the fetched device list

-----------------------------------------------------------------------------
(* Constants of the source *)

SUPPORT_FLAGS == 0
SLEEP_SECONDS == 10

STATE_ECO == "eco"
STATE_ELECTRIC == "electric"
STATE_OFF == "off"
STATE_UNKNOWN == "unknown"
TEMP_CELSIUS == "C"

ATTR_HOT == "hot"
ATTR_COLD == "cold"
ATTR_HOME == "home"
ATTR_ENERGY == "energy"
ATTR_VOLTAGE == "voltage"
ATTR_CURRENT == "current"
ATTR_RELAY == "relay_state"
ATTR_LOAD == "load"

PyTrue == "True"
PyFalse == "False"
PyNone == "None"

Nothing == <<>>
Just(v) == <<v>>

EmptyDict == [k \in {} |-> PyNone]

\* dict.get(key, default)
Get(d, key, default) == IF key \in DOMAIN d THEN d[key] ELSE default

-----------------------------------------------------------------------------
(* Inputs: what the vendor API may hand back *)

Serials == {"SN1", "SN2"}
Names == {"Bobbie", "Boiler"}
Types == {"bobbie", "melissa"}

\* a device of the account; "online" may be absent
DeviceWith(ty, sn, nm) ==
    [type |-> ty, serial_number |-> sn, name |-> nm, online |-> PyTrue]
DeviceWithout(ty, sn, nm) ==
    [type |-> ty, serial_number |-> sn, name |-> nm]
DeviceOffline(ty, sn, nm) ==
    [type |-> ty, serial_number |-> sn, name |-> nm, online |-> PyFalse]

Devices ==
    {DeviceWith(ty, sn, nm) : ty \in Types, sn \in Serials, nm \in Names}
    \cup {DeviceWithout(ty, sn, nm) : ty \in Types, sn \in Serials, nm \in Names}

\* the init_data of the entity under study
InitDatas ==
    {DeviceWith("bobbie", "SN1", "Bobbie"),
     DeviceOffline("bobbie", "SN1", "Bobbie"),
     DeviceWithout("bobbie", "SN1", "Bobbie")}

\* temperatures are in hundredths of a degree Celsius
StatusPayload(relay, load) ==
    [relay_state |-> relay, load |-> load, hot |-> 4526, cold |-> 1504,
     home |-> 2110, energy |-> 12, voltage |-> 230, current |-> 9]

StatusPayloads ==
    {StatusPayload(r, l) : r \in {PyTrue, PyFalse}, l \in {PyTrue, PyFalse, PyNone}}

\* async_status(): serial -> payload; the own serial may be missing
StatusResponses ==
    {[s \in D |-> p] : D \in {{}, {"SN1"}}, p \in StatusPayloads}

Controllers == {[online |-> PyTrue], [online |-> PyFalse], EmptyDict}

\* async_cur_settings(serial): a dict that may lack "controller"
SettingsResponses ==
    {[k \in D |-> c] : D \in {{}, {"controller"}}, c \in Controllers}

Exceptions == {"KeyError", "ConnectionError"}

-----------------------------------------------------------------------------
(* The entity *)

\* object state before __init__ has run: no instance attribute yet
NoAttributes == EmptyDict

Constructed == DOMAIN self # {}

\* variant: the constructor seeds the status cache instead of leaving it None
BobbieWaterHeaterSeeded(serial_number, data) ==
    [name |-> data["name"],
     serial_number |-> serial_number,
     data |-> data,
     state |-> PyNone,
     cur_settings |-> Nothing,
     status_data |-> Just(StatusPayload(PyFalse, PyFalse)),
     attr_available |-> Get(data, "online", PyFalse),
     attr_current_operation |-> PyNone]

\* BobbieWaterHeater.__init__; _attr_current_operation is the class default.
\* The trailing self.async_update() only creates a coroutine object that is
\* never awaited: no step of async_update runs.
BobbieWaterHeater(serial_number, data) ==
    [name |-> data["name"],
     serial_number |-> serial_number,
     data |-> data,
     state |-> PyNone,
     cur_settings |-> Nothing,
     status_data |-> Nothing,
     attr_available |-> Get(data, "online", PyFalse),
     attr_current_operation |-> PyNone]

\* property name
Name(s) == s.name

\* variant: a settings payload without "online" counts as online
AvailableDefaultTrue(s) ==
    IF s.cur_settings # Nothing
    THEN Get(s.cur_settings[1], "online", PyTrue)
    ELSE s.attr_available

\* property available: the value of _attr_available after the read
Available(s) ==
    IF s.cur_settings # Nothing
    THEN Get(s.cur_settings[1], "online", PyFalse)
    ELSE s.attr_available

\* property temperature_unit
TemperatureUnit(s) == TEMP_CELSIUS

\* property supported_features
SupportedFeatures(s) == SUPPORT_FLAGS

\* whether a read of available assigns _attr_available
AvailableAssigns(s) == s.cur_settings # Nothing

\* property current_temperature
CurrentTemperature(s) ==
    IF s.status_data # Nothing
    THEN Just(Get(s.status_data[1], ATTR_HOT, 0))
    ELSE Nothing

\* variant: the eco and electric branches swapped
CurrentOperationSwapped(s) ==
    IF s.status_data = Nothing THEN STATE_UNKNOWN
    ELSE IF s.status_data[1][ATTR_RELAY] = PyFalse THEN STATE_OFF
    ELSE IF s.status_data[1][ATTR_LOAD] = PyFalse THEN STATE_ELECTRIC
    ELSE IF s.status_data[1][ATTR_LOAD] = PyTrue THEN STATE_ECO
    ELSE s.attr_current_operation

\* variant: a final else branch that assigns STATE_UNKNOWN
CurrentOperationElseUnknown(s) ==
    IF s.status_data = Nothing THEN STATE_UNKNOWN
    ELSE IF s.status_data[1][ATTR_RELAY] = PyFalse THEN STATE_OFF
    ELSE IF s.status_data[1][ATTR_LOAD] = PyFalse THEN STATE_ECO
    ELSE IF s.status_data[1][ATTR_LOAD] = PyTrue THEN STATE_ELECTRIC
    ELSE STATE_UNKNOWN

\* property current_operation: the value of _attr_current_operation after the read
CurrentOperation(s) ==
    IF s.status_data = Nothing THEN STATE_UNKNOWN
    ELSE IF s.status_data[1][ATTR_RELAY] = PyFalse THEN STATE_OFF
    ELSE IF s.status_data[1][ATTR_LOAD] = PyFalse THEN STATE_ECO
    ELSE IF s.status_data[1][ATTR_LOAD] = PyTrue THEN STATE_ELECTRIC
    ELSE s.attr_current_operation

\* whether a read of current_operation takes one of the assigning branches
CurrentOperationAssigns(s) ==
    \/ s.status_data = Nothing
    \/ s.status_data[1][ATTR_RELAY] = PyFalse
    \/ s.status_data[1][ATTR_LOAD] = PyFalse
    \/ s.status_data[1][ATTR_LOAD] = PyTrue

\* helpers.temperature.display_temp for a Celsius system at tenths precision:
\* hundredths of a degree rounded to tenths
ShowTemp(t) == ((t + 5) \div 10) * 10

\* property extra_state_attributes
ExtraStateAttributes(s) ==
    IF s.status_data = Nothing THEN EmptyDict
    ELSE LET d == s.status_data[1] IN
         [cold |-> ShowTemp(d[ATTR_COLD]),
          hot |-> ShowTemp(d[ATTR_HOT]),
          home |-> ShowTemp(d[ATTR_HOME]),
          energy |-> d[ATTR_ENERGY],
          voltage |-> d[ATTR_VOLTAGE],
          current |-> d[ATTR_CURRENT],
          relay_state |-> d[ATTR_RELAY],
          load |-> d[ATTR_LOAD]]

-----------------------------------------------------------------------------
(* Coroutines on the entity *)

Ev(name) ==
    [ev |-> name, serial |-> "", device_type |-> "", state_data |-> Nothing,
     secs |-> 0, exc |-> PyNone]

\* op: the operation; pc: the await it is suspended at, or how it ended;
\* trace: the calls it made and what came back; exc: the exception it raised;
\* snap: the caches as they were when its async_update began
IdleTask ==
    [op |-> "idle", pc |-> "idle", trace |-> <<>>, snap |-> Nothing, exc |-> PyNone]

\* variant: turn-on sends the state data of turn-off
StateDataAlwaysOff(op) == Just([state |-> "off"])

\* state_data of the command async_turn_on / async_turn_off sends
StateData(op) ==
    IF op = "turn_on" THEN Nothing ELSE Just([state |-> "off"])

SendEvent(s, op) ==
    [Ev("async_send") EXCEPT !.serial = s.serial_number,
                             !.device_type = "bobbie",
                             !.state_data = StateData(op)]

SleepEvent == [Ev("sleep") EXCEPT !.secs = SLEEP_SECONDS]

RaiseEvent(exc) == [Ev("raise") EXCEPT !.exc = exc]

Free == task.pc \in {"idle", "returned", "raised"}

\* variant: except Exception
CaughtAny(exc) == TRUE

\* except KeyError
Caught(exc) == exc = "KeyError"

\* the first statement of async_update: the status call is issued
EnterUpdate(tk) ==
    [tk EXCEPT !.pc = "status",
               !.trace = @ \o <<Ev("async_update"), Ev("async_status")>>,
               !.snap = Just([status_data |-> self.status_data,
                              cur_settings |-> self.cur_settings])]

\* an exception raised inside the try block of async_update
Except(tk, exc) ==
    IF Caught(exc)
    THEN [tk EXCEPT !.pc = "returned", !.snap = Nothing,
                    !.trace = @ \o <<RaiseEvent(exc), Ev("warning"),
                                     Ev("async_update.return")>>]
    ELSE [tk EXCEPT !.pc = "raised", !.snap = Nothing, !.exc = exc,
                    !.trace = @ \o <<RaiseEvent(exc)>>]

\* self._status_data = (await ...)[self._serial_number]
StoreStatus(s, resp) == [s EXCEPT !.status_data = Just(resp[s.serial_number])]

\* self._cur_settings = (await ...)["controller"]
StoreSettings(s, resp) == [s EXCEPT !.cur_settings = Just(resp["controller"])]

\* no property has been read yet
NoRead == [prop |-> "none", value |-> PyNone, assigned |-> FALSE]

\* status, settings: "never" stored, stored by the "last_success" (the latest
\* update that completed both fetches), or by an "unfinished" update (one that
\* has not, or not yet, completed both); boolean_status: some stored status
\* payload had boolean relay and load flags
NeverFetched == [status |-> "never", settings |-> "never", boolean_status |-> FALSE]

BooleanFlags(payload) ==
    /\ payload[ATTR_RELAY] \in {PyTrue, PyFalse}
    /\ payload[ATTR_LOAD] \in {PyTrue, PyFalse}

Init ==
    /\ self = NoAttributes
    /\ init_data \in InitDatas
    /\ task = IdleTask
    /\ returned = NoRead
    /\ fetched = NeverFetched
    /\ platform = [pc |-> "unused"]

Construct ==
    /\ ~Constructed
    /\ self' = BobbieWaterHeater(init_data["serial_number"], init_data)
    /\ UNCHANGED <<init_data, task, returned, fetched, platform>>

ReadAvailable ==
    /\ Constructed
    /\ self' = [self EXCEPT !.attr_available = Available(self)]
    /\ returned' = [prop |-> "available", value |-> Available(self),
                    assigned |-> AvailableAssigns(self)]
    /\ UNCHANGED <<init_data, task, fetched, platform>>

ReadCurrentOperation ==
    /\ Constructed
    /\ self' = [self EXCEPT !.attr_current_operation = CurrentOperation(self)]
    /\ returned' = [prop |-> "current_operation", value |-> CurrentOperation(self),
                    assigned |-> CurrentOperationAssigns(self)]
    /\ UNCHANGED <<init_data, task, fetched, platform>>

\* async_update called by the host
StartUpdate ==
    /\ Constructed /\ Free
    /\ task' = EnterUpdate([IdleTask EXCEPT !.op = "update"])
    /\ UNCHANGED <<self, init_data, returned, fetched, platform>>

\* async_turn_on / async_turn_off called by the host: the command is sent
StartCommand(op) ==
    /\ Constructed /\ Free
    /\ task' = [IdleTask EXCEPT !.op = op, !.pc = "send",
                                !.trace = <<SendEvent(self, op)>>]
    /\ UNCHANGED <<self, init_data, returned, fetched, platform>>

TurnOn == StartCommand("turn_on")

TurnOff == StartCommand("turn_off")

\* await api.async_send(...) completes; asyncio.sleep(10) begins
SendReturns ==
    /\ task.pc = "send"
    /\ task' = [task EXCEPT !.pc = "sleep",
                            !.trace = @ \o <<Ev("async_send.return"), SleepEvent>>]
    /\ UNCHANGED <<self, init_data, returned, fetched, platform>>

\* await api.async_send(...) raises: outside any try block
SendRaises(exc) ==
    /\ task.pc = "send"
    /\ task' = [task EXCEPT !.pc = "raised", !.exc = exc,
                            !.trace = @ \o <<RaiseEvent(exc)>>]
    /\ UNCHANGED <<self, init_data, returned, fetched, platform>>

\* the sleep is over: await self.async_update()
SleepDone ==
    /\ task.pc = "sleep"
    /\ task' = EnterUpdate([task EXCEPT !.trace = @ \o <<Ev("sleep.return")>>])
    /\ UNCHANGED <<self, init_data, returned, fetched, platform>>

\* await api.async_status(cached=True) returns resp; resp[self._serial_number]
StatusReturns(resp) ==
    /\ task.pc = "status"
    /\ IF self.serial_number \in DOMAIN resp
       THEN /\ self' = StoreStatus(self, resp)
            /\ fetched' = [fetched EXCEPT
                              !.status = "unfinished",
                              !.boolean_status = @ \/ BooleanFlags(resp[self.serial_number])]
            /\ task' = [task EXCEPT !.pc = "settings",
                                    !.trace = @ \o <<Ev("async_status.return"),
                                                     Ev("async_cur_settings")>>]
       ELSE /\ task' = Except([task EXCEPT !.trace = @ \o <<Ev("async_status.return")>>],
                              "KeyError")
            /\ UNCHANGED <<self, fetched>>
    /\ UNCHANGED <<init_data, returned, platform>>

StatusRaises(exc) ==
    /\ task.pc = "status"
    /\ task' = Except(task, exc)
    /\ UNCHANGED <<self, init_data, returned, fetched, platform>>

\* await api.async_cur_settings(serial) returns resp; resp["controller"]
SettingsReturns(resp) ==
    /\ task.pc = "settings"
    /\ IF "controller" \in DOMAIN resp
       THEN /\ self' = StoreSettings(self, resp)
            /\ fetched' = [fetched EXCEPT !.status = "last_success",
                                          !.settings = "last_success"]
            /\ task' = [task EXCEPT !.pc = "returned", !.snap = Nothing,
                                    !.trace = @ \o <<Ev("async_cur_settings.return"),
                                                     Ev("async_update.return")>>]
       ELSE /\ task' = Except([task EXCEPT !.trace = @ \o <<Ev("async_cur_settings.return")>>],
                              "KeyError")
            /\ UNCHANGED <<self, fetched>>
    /\ UNCHANGED <<init_data, returned, platform>>

SettingsRaises(exc) ==
    /\ task.pc = "settings"
    /\ task' = Except(task, exc)
    /\ UNCHANGED <<self, init_data, returned, fetched, platform>>

Next ==
    \/ Construct
    \/ ReadAvailable
    \/ ReadCurrentOperation
    \/ StartUpdate
    \/ TurnOn
    \/ TurnOff
    \/ SendReturns
    \/ \E exc \in Exceptions : SendRaises(exc)
    \/ SleepDone
    \/ \E resp \in StatusResponses : StatusReturns(resp)
    \/ \E exc \in Exceptions : StatusRaises(exc)
    \/ \E resp \in SettingsResponses : SettingsReturns(resp)
    \/ \E exc \in Exceptions : SettingsRaises(exc)

Spec == Init /\ [][Next]_vars

-----------------------------------------------------------------------------
(* async_setup_platform *)

\* what the account lists: the values of the dict async_fetch_devices returns
DeviceLists == UNION {[1..n -> Devices] : n \in 0..MaxDevices}

\* variant: the type test is missing
IsAnyDevice(device) == TRUE

\* device["type"] == "bobbie"
IsBobbie(device) == device["type"] = "bobbie"

\* the for loop over the devices, building all_devices
RECURSIVE CollectDevices(_, _)
CollectDevices(devices, all_devices) ==
    IF devices = <<>> THEN all_devices
    ELSE LET device == Head(devices) IN
         CollectDevices(Tail(devices),
             IF IsBobbie(device)
             THEN Append(all_devices,
                         BobbieWaterHeater(device["serial_number"], device))
             ELSE all_devices)

\* account: the devices the vendor lists; fetch_calls: async_fetch_devices
\* calls made; add_calls: the argument of each async_add_entities call
SetupInit ==
    /\ self = NoAttributes
    /\ init_data \in {DeviceWith("bobbie", "SN1", "Bobbie")}
    /\ task = IdleTask
    /\ returned = NoRead
    /\ fetched = NeverFetched
    /\ \E account \in DeviceLists :
          platform = [pc |-> "start", account |-> account, fetch_calls |-> 0,
                      add_calls |-> <<>>, exc |-> PyNone]

\* async_setup_platform called by the host: await api.async_fetch_devices()
SetupStart ==
    /\ platform.pc = "start"
    /\ platform' = [platform EXCEPT !.pc = "fetch", !.fetch_calls = @ + 1]
    /\ UNCHANGED <<self, init_data, task, returned, fetched>>

\* the fetch returns: the loop, then async_add_entities(all_devices)
FetchReturns ==
    /\ platform.pc = "fetch"
    /\ platform' = [platform EXCEPT
                       !.pc = "done",
                       !.add_calls = Append(@, CollectDevices(platform.account, <<>>))]
    /\ UNCHANGED <<self, init_data, task, returned, fetched>>

\* the fetch raises: nothing is registered
FetchRaises(exc) ==
    /\ platform.pc = "fetch"
    /\ platform' = [platform EXCEPT !.pc = "raised", !.exc = exc]
    /\ UNCHANGED <<self, init_data, task, returned, fetched>>

SetupNext ==
    \/ SetupStart
    \/ FetchReturns
    \/ \E exc \in Exceptions : FetchRaises(exc)

SetupSpec == SetupInit /\ [][SetupNext]_vars

-----------------------------------------------------------------------------
(* Properties *)

Commands == {"turn_on", "turn_off"}

\* positions of the events named name in the task's trace
Idx(name) == {i \in DOMAIN task.trace : task.trace[i].ev = name}

\* every event b of the trace comes after some event a
Before(a, b) == \A j \in Idx(b) : \E i \in Idx(a) : i < j

\* the step in which async_update swallows a KeyError and returns
Swallows ==
    /\ task.pc \in {"status", "settings"}
    /\ task'.pc = "returned"
    /\ \E i \in DOMAIN task'.trace : task'.trace[i].ev = "warning"

\* C1: every read of current_operation returns (and leaves in
\* _attr_current_operation) "unknown" when no status is cached, "off" when the
\* cached relay flag is False whatever the load flag, "eco" when relay is True
\* and load is False, "electric" when relay is True and load is True.
C1_OperatingStateDerivation ==
    [][ReadCurrentOperation =>
        LET st == self.status_data
            r == returned'.value
        IN /\ returned'.prop = "current_operation"
           /\ self'.attr_current_operation = r
           /\ (st = Nothing) => (r = "unknown")
           /\ (st # Nothing /\ st[1]["relay_state"] = "False") => (r = "off")
           /\ (st # Nothing /\ st[1]["relay_state"] = "True"
                            /\ st[1]["load"] = "False") => (r = "eco")
           /\ (st # Nothing /\ st[1]["relay_state"] = "True"
                            /\ st[1]["load"] = "True") => (r = "electric")]_vars

\* C1 witness: a read returned "electric" for a cached payload with relay and load on
C1_Witness ==
    /\ Constructed
    /\ returned.prop = "current_operation" /\ returned.assigned
    /\ returned.value = "electric"
    /\ self.status_data # Nothing
    /\ self.status_data[1]["relay_state"] = "True"
    /\ self.status_data[1]["load"] = "True"

\* C2 (as stated): the step in which an update swallows a missing key leaves
\* both caches exactly as they were when that update began.
C2_MissingKeyLeavesCaches ==
    [][Swallows =>
        /\ self'.status_data = task.snap[1].status_data
        /\ self'.cur_settings = task.snap[1].cur_settings]_vars

\* C3: a turn-on or turn-off sends exactly one command, first, to the entity's
\* own serial number with the state data of its kind; the send returns before
\* the sleep of 10 s, the sleep ends before the one update begins, the update
\* begins before its status fetch, and the command returns only with the
\* return of that update as its last event.
C3_CommandOrder ==
    (Constructed /\ task.op \in Commands) =>
        /\ Cardinality(Idx("async_send")) = 1
        /\ task.trace[1].ev = "async_send"
        /\ task.trace[1].serial = init_data["serial_number"]
        /\ task.trace[1].device_type = "bobbie"
        /\ task.trace[1].state_data =
              (IF task.op = "turn_on" THEN <<>> ELSE <<[state |-> "off"]>>)
        /\ Cardinality(Idx("sleep")) <= 1
        /\ Cardinality(Idx("async_update")) <= 1
        /\ Cardinality(Idx("async_status")) <= 1
        /\ \A i \in Idx("sleep") : task.trace[i].secs = 10
        /\ Before("async_send.return", "sleep")
        /\ Before("sleep", "sleep.return")
        /\ Before("sleep.return", "async_update")
        /\ Before("async_update", "async_status")
        /\ (task.pc = "returned") =>
              /\ Idx("async_status") # {}
              /\ task.trace[Len(task.trace)].ev = "async_update.return"

\* C3 witness: a turn-off that returned after fetching status and settings
C3_Witness ==
    /\ task.op = "turn_off" /\ task.pc = "returned"
    /\ Idx("async_cur_settings.return") # {}
    /\ Idx("warning") = {}

\* C4 (as stated): whenever no operation is running, the caches are both empty
\* or were both stored by the latest update that completed both fetches.
C4_CachesFromSameUpdate ==
    (Constructed /\ Free) =>
        \/ /\ self.status_data = Nothing /\ self.cur_settings = Nothing
           /\ fetched.status = "never" /\ fetched.settings = "never"
        \/ /\ fetched.status = "last_success" /\ fetched.settings = "last_success"

\* C5: an exception other than KeyError raised by a vendor call ends the
\* operation at once with that exception raised to the caller, and an operation
\* whose send raised (whatever it raised) has made no status fetch.
C5_OtherFailuresPropagate ==
    /\ \A i \in DOMAIN task.trace :
          (task.trace[i].ev = "raise" /\ task.trace[i].exc # "KeyError") =>
              /\ i = Len(task.trace)
              /\ task.pc = "raised"
              /\ task.exc = task.trace[i].exc
              /\ Idx("warning") = {}
    /\ (task.op \in Commands /\ Len(task.trace) >= 2 /\ task.trace[2].ev = "raise") =>
          /\ task.pc = "raised"
          /\ task.exc = task.trace[2].exc
          /\ Idx("async_status") = {}
          /\ Idx("async_update") = {}

\* C5 witness: a turn-on whose status re-fetch raised a connection error
C5_Witness ==
    /\ task.op = "turn_on" /\ task.pc = "raised" /\ task.exc = "ConnectionError"
    /\ Idx("async_status") # {}
    /\ Idx("async_cur_settings") = {}

\* C6: when setup has finished, the device list was fetched once and
\* async_add_entities was called once, with one entity per listed device of
\* type "bobbie", in order, carrying that device's serial number and name; it
\* is never called more than once.
C6_SetupRegistersBobbies ==
    /\ Len(platform.add_calls) <= 1
    /\ platform.fetch_calls <= 1
    /\ (platform.pc = "done") =>
          /\ platform.fetch_calls = 1
          /\ Len(platform.add_calls) = 1
          /\ LET OfTypeBobbie(d) == d["type"] = "bobbie"
                 bobbies == SelectSeq(platform.account, OfTypeBobbie)
                 entities == platform.add_calls[1]
             IN /\ Len(entities) = Len(bobbies)
                /\ \A i \in 1..Len(bobbies) :
                      /\ entities[i].serial_number = bobbies[i]["serial_number"]
                      /\ entities[i].name = bobbies[i]["name"]

\* C6 witness: setup finished over a list with a bobbie and another device
C6_Witness ==
    /\ platform.pc = "done"
    /\ Len(platform.account) = 2
    /\ platform.account[1]["type"] = "melissa"
    /\ platform.account[2]["type"] = "bobbie"
    /\ Len(platform.add_calls[1]) = 1

\* the online flag of a dict, False when absent
OnlineFlag(d) == IF "online" \in DOMAIN d THEN d["online"] ELSE "False"

\* C7: every read of available returns the online flag of the cached settings
\* (False when absent) once some update has stored settings, and the online
\* flag of the initial device data (False when absent) before that; and an
\* update that swallows a missing key leaves what a read reports unchanged.
C7_Availability ==
    [][/\ ReadAvailable =>
             /\ returned'.prop = "available"
             /\ returned'.value =
                   (IF fetched.settings # "never"
                    THEN OnlineFlag(self.cur_settings[1])
                    ELSE OnlineFlag(init_data))
       /\ Swallows => (Available(self') = Available(self))]_vars

\* C7 witness: after a swallowed update, with settings cached that lack the
\* flag and initial data that was online, the last read reported False
C7_Witness ==
    /\ Constructed
    /\ returned.prop = "available" /\ returned.value = "False"
    /\ fetched.settings # "never"
    /\ "online" \notin DOMAIN self.cur_settings[1]
    /\ "online" \in DOMAIN init_data /\ init_data["online"] = "True"
    /\ task.pc = "returned" /\ Idx("warning") # {}

\* as long as no update has stored a status (settings), the status (settings)
\* cache is empty and the reads report nothing fetched
EmptyUntilFetched ==
    Constructed =>
        /\ (fetched.status = "never") =>
              /\ self.status_data = Nothing
              /\ (returned.prop = "current_operation") => (returned.value = "unknown")
              /\ CurrentOperation(self) = "unknown"
              /\ CurrentTemperature(self) = <<>>
              /\ DOMAIN ExtraStateAttributes(self) = {}
        /\ (fetched.settings = "never") => (self.cur_settings = Nothing)

\* C8: construction starts no operation (so makes no vendor call) and leaves
\* both caches empty; as long as no update has stored a status, the status
\* cache is empty, every read of the operating state has returned "unknown",
\* the current temperature is None and the extra attributes are the empty map.
C8_ConstructionIsLazy ==
    /\ []EmptyUntilFetched
    /\ [][Construct =>
            /\ task' = IdleTask /\ fetched' = NeverFetched
            /\ self'.status_data = <<>> /\ self'.cur_settings = <<>>]_vars

\* C8 witness: constructed, a command sent but no status fetched yet, and a
\* read of the operating state returned "unknown"
C8_Witness ==
    /\ Constructed
    /\ fetched.status = "never"
    /\ task.op = "turn_on" /\ task.pc = "sleep"
    /\ returned.prop = "current_operation" /\ returned.value = "unknown"

\* C9 (as stated): once some update has stored a status payload with boolean
\* relay and load flags, the status cache is never empty again and no read of
\* the operating state returns "unknown".
C9_NeverUnknownAgain ==
    [][/\ fetched.boolean_status => (self'.status_data # Nothing)
       /\ (fetched.boolean_status /\ ReadCurrentOperation) =>
             (returned'.value # "unknown")]_vars

\* C10: a read of the operating state with a cached payload whose relay flag is
\* not False and whose load flag is neither True nor False assigns nothing and
\* returns what _attr_current_operation already held, the previous read's value.
C10_StaleFallThrough ==
    [][(/\ ReadCurrentOperation
        /\ self.status_data # Nothing
        /\ self.status_data[1]["relay_state"] # "False"
        /\ self.status_data[1]["load"] \notin {"True", "False"}) =>
          /\ self'.attr_current_operation = self.attr_current_operation
          /\ returned'.value = self.attr_current_operation
          /\ ~returned'.assigned]_vars

\* C10 witness: a read that assigned nothing returned "electric" while the
\* cached payload has a null load flag
C10_Witness ==
    /\ Constructed
    /\ returned.prop = "current_operation" /\ ~returned.assigned
    /\ returned.value = "electric"
    /\ self.status_data # Nothing
    /\ self.status_data[1]["load"] = "None"
    /\ self.attr_current_operation = "electric"

====
